---- MODULE Spec2Model ----
(***************************************************************************)
(* Shopping list over a Google sheet (src/app.py).  Several browser        *)
(* sessions share one remote sheet and one process-wide st.cache_data      *)
(* cache of load_and_get_data, keyed by the data_version argument alone    *)
(* (the _client argument is excluded from the key by its underscore).      *)
(* Handlers are split at their remote calls, where sessions interleave.    *)
(***************************************************************************)
EXTENDS Integers, Sequences, FiniteSets, TLC

\* ---------------------------------------------------------------- bounds
MaxVersion == 1
MaxRows == 2
MaxTime == 1
\* the sheet writes of one behaviour
MaxWrites == 2

Sessions == {"s1", "s2"}
Versions == 0..MaxVersion

\* ------------------------------------------------------------- constants
STORES == {"Costco", "Trader Joe's", "Whole Foods", "Other"}
CATEGORIES == {"Vegetables", "Beverages", "Meat/Dairy", "Frozen", "Dry Goods"}

\* the 1-based position of 'purchased' in the header row
\* timestamp, item, purchased, category, store
PurchasedCol == 3

\* ------------------------------------------------------------------ text
\* Cell texts and identifiers are sequences of one-character strings.
UpperAlpha == <<"A","B","C","D","E","F","G","H","I","J","K","L","M",
                "N","O","P","Q","R","S","T","U","V","W","X","Y","Z">>
LowerAlpha == <<"a","b","c","d","e","f","g","h","i","j","k","l","m",
                "n","o","p","q","r","s","t","u","v","w","x","y","z">>

LowerChar(c) ==
    IF \E i \in 1..26 : UpperAlpha[i] = c
    THEN LowerAlpha[CHOOSE i \in 1..26 : UpperAlpha[i] = c]
    ELSE c

UpperChar(c) ==
    IF \E i \in 1..26 : LowerAlpha[i] = c
    THEN UpperAlpha[CHOOSE i \in 1..26 : LowerAlpha[i] = c]
    ELSE c

Lower(s) == [i \in 1..Len(s) |-> LowerChar(s[i])]
Upper(s) == [i \in 1..Len(s) |-> UpperChar(s[i])]

\* Python's str(bool)
PyStr(b) == IF b THEN <<"T","r","u","e">> ELSE <<"F","a","l","s","e">>

\* what the sheet shows for a boolean cell
SheetBool(b) == IF b THEN <<"T","R","U","E">> ELSE <<"F","A","L","S","E">>

\* the text toggle_item sends: str(new_status).upper()
ToggleCellText(b) == Upper(PyStr(b))

\* the same without .str.lower()
ParseBool_NoLower(cell) ==
    LET m == IF cell = <<"t","r","u","e">> THEN "True"
             ELSE IF cell = <<"f","a","l","s","e">> THEN "False"
             ELSE "NaN"
    IN  IF m = "NaN" THEN FALSE ELSE m = "True"

\* .astype(str).str.lower().map({'true': True, 'false': False}).fillna(False)
ParseBool(cell) ==
    LET l == Lower(cell)
        m == IF l = <<"t","r","u","e">> THEN "True"
             ELSE IF l = <<"f","a","l","s","e">> THEN "False"
             ELSE "NaN"
    IN  IF m = "NaN" THEN FALSE ELSE m = "True"

Digit(n) == <<"0","1","2","3","4","5","6","7","8","9">>[n + 1]

\* datetime.now().strftime("%Y-%m-%d %H:%M:%S"): one-second resolution, fixed
\* width; the date and the hour are the same for every tick of the model.
FormatTime(t) == <<Digit((t \div 10) % 10), Digit(t % 10)>>

\* ------------------------------------------------- vocabulary of the claims
\* the text reads "true", whatever the case of its letters
Truth(cell) ==
    /\ Len(cell) = 4
    /\ cell[1] \in {"t", "T"}
    /\ cell[2] \in {"r", "R"}
    /\ cell[3] \in {"u", "U"}
    /\ cell[4] \in {"e", "E"}

Has(rows, id) == \E i \in 1..Len(rows) : rows[i].timestamp = id

FirstIdx(rows, id) ==
    CHOOSE i \in 1..Len(rows) :
        /\ rows[i].timestamp = id
        /\ \A j \in 1..Len(rows) : rows[j].timestamp = id => i <= j

\* the rows that are records: those with an identifier
Records(rows) == {i \in 1..Len(rows) : rows[i].timestamp # <<>>}

UniqueIds(rows) ==
    \A i, j \in Records(rows) : i # j => rows[i].timestamp # rows[j].timestamp

RemoveAt(rows, i) == SubSeq(rows, 1, i - 1) \o SubSeq(rows, i + 1, Len(rows))

RECURSIVE Others(_, _)
\* the rows whose identifier is not id, in order
Others(rows, id) ==
    IF rows = <<>> THEN <<>>
    ELSE IF Head(rows).timestamp = id THEN Others(Tail(rows), id)
    ELSE <<Head(rows)>> \o Others(Tail(rows), id)

\* a occurs in b as a contiguous part
IsSubstring(a, b) ==
    \E k \in 0..(Len(b) - Len(a)) : \A i \in 1..Len(a) : b[k + i] = a[i]

\* ----------------------------------------------------------------- rows
BlankRow == [timestamp |-> <<>>, item |-> "", purchased |-> <<>>,
             category |-> "", store |-> ""]

\* rows after the last row with any content are not part of the data
RECURSIVE TrimRows(_)
TrimRows(rows) ==
    IF rows = <<>> THEN <<>>
    ELSE IF rows[Len(rows)] = BlankRow THEN TrimRows(SubSeq(rows, 1, Len(rows) - 1))
    ELSE rows

RECURSIVE Blanks(_)
Blanks(n) == IF n <= 0 THEN <<>> ELSE <<BlankRow>> \o Blanks(n - 1)

\* the same with the header row not counted
UpdateCell_OffByOne(rows, r, text) ==
    LET i == r IN
    IF i <= Len(rows)
    THEN TrimRows([rows EXCEPT ![i].purchased = text])
    ELSE TrimRows(rows \o Blanks(i - Len(rows) - 1)
                       \o <<[BlankRow EXCEPT !.purchased = text]>>)

\* sheet.update_cell(row, PurchasedCol, text); row 1 is the header
UpdateCell(rows, r, text) ==
    LET i == r - 1 IN
    IF i <= Len(rows)
    THEN TrimRows([rows EXCEPT ![i].purchased = text])
    ELSE TrimRows(rows \o Blanks(i - Len(rows) - 1)
                       \o <<[BlankRow EXCEPT !.purchased = text]>>)

\* the same with the header row not counted
DeleteRows_OffByOne(rows, r) ==
    LET i == r IN
    IF i <= Len(rows)
    THEN TrimRows(SubSeq(rows, 1, i - 1) \o SubSeq(rows, i + 1, Len(rows)))
    ELSE rows

\* the same deleting the row and every row below it
DeleteRows_ToEnd(rows, r) == TrimRows(SubSeq(rows, 1, r - 2))

\* sheet.delete_rows(row)
DeleteRows(rows, r) ==
    LET i == r - 1 IN
    IF i <= Len(rows)
    THEN TrimRows(SubSeq(rows, 1, i - 1) \o SubSeq(rows, i + 1, Len(rows)))
    ELSE rows

\* sheet.append_row(values)
AppendRow(rows, row) == Append(rows, row)

\* the same with containment (timestamp_id in t) in place of equality
FindRowIndex_Substring(rows, id) ==
    IF \E i \in 1..Len(rows) : IsSubstring(id, rows[i].timestamp)
    THEN (CHOOSE i \in 1..Len(rows) :
             /\ IsSubstring(id, rows[i].timestamp)
             /\ \A j \in 1..(i - 1) : ~IsSubstring(id, rows[j].timestamp)) + 1
    ELSE 0

\* the same with a reversed containment (t in timestamp_id) in place of equality
FindRowIndex_Contained(rows, id) ==
    IF \E i \in 1..Len(rows) : IsSubstring(rows[i].timestamp, id)
    THEN (CHOOSE i \in 1..Len(rows) :
             /\ IsSubstring(rows[i].timestamp, id)
             /\ \A j \in 1..(i - 1) : ~IsSubstring(rows[j].timestamp, id)) + 1
    ELSE 0

\* a starts b
IsPrefix(a, b) == Len(a) <= Len(b) /\ SubSeq(b, 1, Len(a)) = a

\* the same with t.startswith(timestamp_id) in place of equality
FindRowIndex_Prefix(rows, id) ==
    IF \E i \in 1..Len(rows) : IsPrefix(id, rows[i].timestamp)
    THEN (CHOOSE i \in 1..Len(rows) :
             /\ IsPrefix(id, rows[i].timestamp)
             /\ \A j \in 1..(i - 1) : ~IsPrefix(id, rows[j].timestamp)) + 1
    ELSE 0

\* timestamps.index(timestamp_id) + 2, or None (0) on ValueError
FindRowIndex(rows, id) ==
    IF \E i \in 1..Len(rows) : rows[i].timestamp = id
    THEN (CHOOSE i \in 1..Len(rows) :
             /\ rows[i].timestamp = id
             /\ \A j \in 1..(i - 1) : rows[j].timestamp # id) + 1
    ELSE 0

\* ------------------------------------------------------------ data frame
\* pd.DataFrame(sheet.get_all_records()) with the purchased column coerced;
\* a sheet without data rows gives a frame without columns.
MakeDF(rows) ==
    [cols |-> Len(rows) > 0,
     rows |-> [i \in 1..Len(rows) |->
                 [timestamp |-> rows[i].timestamp,
                  item      |-> rows[i].item,
                  purchased |-> ParseBool(rows[i].purchased),
                  category  |-> rows[i].category,
                  store     |-> rows[i].store]]]

\* pd.DataFrame(columns=["timestamp", "item", "purchased", "category", "store"])
EmptyDF == [cols |-> TRUE, rows |-> <<>>]

\* an entry of the cache: the pair (sheet, df) a call returned; history: at,
\* the number of writes the sheet had taken when it was fetched
NoEntry == [loaded |-> FALSE, sheet |-> FALSE, df |-> [cols |-> FALSE, rows |-> <<>>],
            at |-> 0]

\* df.loc[df['timestamp'] == timestamp_id, "purchased"]
Matches(df, id) == {i \in 1..Len(df.rows) : df.rows[i].timestamp = id}
FirstMatch(df, id) == CHOOSE i \in Matches(df, id) : \A j \in Matches(df, id) : i <= j

\* the same without the negation
NewStatus_Same(df, id) == df.rows[FirstMatch(df, id)].purchased

\* the same marking the item purchased whatever it was
NewStatus_AlwaysTrue(df, id) == TRUE

\* lines 157-158: current_status = ....iloc[0]; new_status = not current_status
NewStatus(df, id) == ~df.rows[FirstMatch(df, id)].purchased

\* the identifiers that get a toggle and a delete button: the rows of a store tab
ViewOf(df) == {df.rows[i].timestamp : i \in {j \in 1..Len(df.rows) : df.rows[j].store \in STORES}}

\* the same looking in the category column
ItemOnList_Category(df, item) == \E i \in 1..Len(df.rows) : df.rows[i].category = item

\* new_item_val in df["item"].values
ItemOnList(df, item) == \E i \in 1..Len(df.rows) : df.rows[i].item = item


\* ----------------------------------------------------------------- state
VARIABLES
    exists,        \* the spreadsheet SHEET_NAME exists in the drive
    header,        \* its first row holds the five column names
    sheet,         \* its data rows (the rows below the first row)
    cache,         \* st.cache_data of load_and_get_data: data_version -> entry
    data_version,  \* st.session_state['data_version'] of each session
    view,          \* the identifiers whose buttons a session's last run rendered
    pc,            \* where each session is
    loc,           \* the locals of each session's running handler
    now,           \* the wall clock, in seconds
    writes,        \* the number of writes made to the sheet so far
    tg,            \* history: the last completed toggle write
    ev,            \* history: what the step just taken did
    sv             \* the locals of a save_data_to_sheet call

vars == <<exists, header, sheet, cache, data_version, view, pc, loc, now, writes,
          tg, ev, sv>>

Mid == {"t_write", "d_write", "a_write"}

\* a handler may start while the writes made and those under way leave room
Room == writes + Cardinality({o \in Sessions : pc[o] \in Mid}) < MaxWrites

\* id, new, row, newrow: timestamp_id, new_status, row_index, new_row;
\* history: pre (the data rows when the handler started), old (the purchased
\* text of the record then, read as a boolean), fresh, seq, intf (another
\* session wrote since), idel (another session deleted a row since), wrote
\* (the number of the write the session made and has not loaded since, or 0)
NoLoc == [id |-> <<>>, new |-> FALSE, row |-> 0, newrow |-> BlankRow,
          pre |-> <<>>, old |-> FALSE, fresh |-> FALSE, seq |-> FALSE,
          intf |-> FALSE, idel |-> FALSE, wrote |-> 0]

NoTg == [valid |-> FALSE, id |-> <<>>, before |-> FALSE, fresh |-> FALSE,
         quiet |-> FALSE]

\* op, s, id: the handler, its session and its argument; out: how it ended;
\* pre: the data rows when it started; ver: data_version when it started;
\* fresh: the table it got from load_and_get_data held what the sheet held;
\* quiet: no other session wrote while it ran; seq: it is a toggle that began
\* after a toggle of the same identifier, the last write to the sheet, had
\* ended (pbefore, pfresh, pquiet: that toggle's value before, fresh, quiet);
\* row, new: the row and the status it wrote; absent: the table it got has no
\* row with the identifier; fail: the fetch failure of its load, if any;
\* loadres: what load_and_get_data did; fetched: the load read the sheet;
\* prew: the data rows just before the handler's write; nodel: no other
\* session deleted a row while it ran; afterw: the load is the session's first
\* since it made the write of this number; item: the item name of the add form
NoEv == [op |-> "none", s |-> "", id |-> <<>>, out |-> "", pre |-> <<>>,
         ver |-> 0, fresh |-> FALSE, quiet |-> FALSE, seq |-> FALSE,
         pbefore |-> FALSE, pfresh |-> FALSE, pquiet |-> FALSE,
         row |-> 0, new |-> FALSE, absent |-> FALSE,
         fail |-> "", loadres |-> "", fetched |-> FALSE, cause |-> "",
         prew |-> <<>>, nodel |-> FALSE, afterw |-> 0, item |-> ""]

\* rows an earlier revision of the application left in the sheet, keyed by its
\* synthetic identifiers and with hand-typed purchased cells
LegacyRows ==
    << [timestamp |-> <<"A","B">>, item |-> "rice", purchased |-> <<"y","e","s">>,
        category |-> "Dry Goods", store |-> "Other"],
       [timestamp |-> <<"A">>, item |-> "tea", purchased |-> <<"T","r","u","e">>,
        category |-> "Beverages", store |-> "Costco"] >>

InitSheets == {<<>>, LegacyRows}

\* the identifiers a button can carry
Ids == {FormatTime(t) : t \in 0..MaxTime} \cup {LegacyRows[i].timestamp : i \in 1..Len(LegacyRows)}

\* inputs of the add form
FormItems == {"milk", "eggs", ""}
FormStores == {"Costco", ""}
FormCategories == {"Frozen", ""}

Nets == {"ok", "down", "nocreate"}

\* pc: where the call is; df: its argument; out: how it ended; got: the table
\* of the load that follows it
NoSv == [pc |-> "none", df |-> [cols |-> FALSE, rows |-> <<>>], out |-> "",
         got |-> [cols |-> FALSE, rows |-> <<>>]]

Init ==
    /\ exists \in BOOLEAN
    /\ header = exists
    /\ sheet \in (IF exists THEN InitSheets ELSE {<<>>})
    /\ cache = [k \in Versions |-> NoEntry]
    /\ data_version = [s \in Sessions |-> 0]
    /\ view = [s \in Sessions |-> {}]
    /\ pc = [s \in Sessions |-> "script"]
    /\ loc = [s \in Sessions |-> NoLoc]
    /\ now = 0
    /\ writes = 0
    /\ tg = NoTg
    /\ ev = NoEv
    /\ sv = NoSv

\* load_and_get_data(_client, k) behind st.cache_data: a hit returns the stored
\* value; a miss runs the body and stores what it returns (an exception is not
\* stored).  net: "down" makes _client.open raise an error other than
\* SpreadsheetNotFound, "nocreate" makes _client.create raise.
Load(k, net) ==
    IF cache[k].loaded
    THEN [exc |-> FALSE, fetched |-> FALSE, entry |-> cache[k],
          exists |-> exists, header |-> header, sheet |-> sheet]
    ELSE IF net = "down"
    THEN [exc |-> TRUE, fetched |-> FALSE, entry |-> NoEntry,
          exists |-> exists, header |-> header, sheet |-> sheet]
    ELSE IF exists
    THEN [exc |-> FALSE, fetched |-> TRUE,
          entry |-> [loaded |-> TRUE, sheet |-> TRUE, df |-> MakeDF(sheet),
                     at |-> writes],
          exists |-> exists, header |-> header, sheet |-> sheet]
    ELSE IF net = "nocreate"
    THEN [exc |-> FALSE, fetched |-> TRUE,
          entry |-> [loaded |-> TRUE, sheet |-> FALSE, df |-> EmptyDF,
                     at |-> writes],
          exists |-> exists, header |-> header, sheet |-> sheet]
    ELSE [exc |-> FALSE, fetched |-> TRUE,
          entry |-> [loaded |-> TRUE, sheet |-> TRUE, df |-> EmptyDF,
                     at |-> writes],
          exists |-> TRUE, header |-> TRUE, sheet |-> <<>>]

\* the effect of a load on the shared state
Loaded(k, r) ==
    /\ cache' = IF r.exc THEN cache ELSE [cache EXCEPT ![k] = r.entry]
    /\ exists' = r.exists
    /\ header' = r.header
    /\ sheet' = r.sheet

LoadEv(s, r, op, out) ==
    [NoEv EXCEPT !.op = op, !.s = s, !.out = out, !.fetched = r.fetched,
                 !.cause = IF r.exc THEN "load" ELSE "",
                 !.fail = IF r.exc THEN "unreachable"
                          ELSE IF r.fetched /\ ~exists THEN "missing" ELSE "",
                 !.loadres = IF r.exc THEN "raised"
                             ELSE IF r.entry.df = EmptyDF THEN "empty" ELSE "table",
                 !.ver = data_version[s]]

\* a successful write of session s disturbs every other running handler;
\* del: the write is a delete_rows
Disturb(s, del) ==
    [o \in Sessions |->
        IF o = s THEN [NoLoc EXCEPT !.wrote = writes + 1]
        ELSE IF pc[o] \in Mid
        THEN [loc[o] EXCEPT !.intf = TRUE, !.idel = (@ \/ del)]
        ELSE loc[o]]

\* lines 194-204 and 265-321: a run of the script without a submitted form
Script(s, net) ==
    /\ pc[s] = "script"
    /\ LET r == Load(data_version[s], net) IN
       /\ Loaded(data_version[s], r)
       /\ IF r.exc
          THEN /\ pc' = [pc EXCEPT ![s] = "stopped"]
               /\ view' = [view EXCEPT ![s] = {}]
               /\ ev' = [LoadEv(s, r, "script", "exception") EXCEPT
                             !.afterw = loc[s].wrote]
          ELSE IF ~r.entry.sheet
          THEN /\ pc' = [pc EXCEPT ![s] = "stopped"]
               /\ view' = [view EXCEPT ![s] = {}]
               /\ ev' = [LoadEv(s, r, "script", "nosheet") EXCEPT
                             !.afterw = loc[s].wrote]
          ELSE /\ pc' = [pc EXCEPT ![s] = "idle"]
               /\ view' = [view EXCEPT ![s] = ViewOf(r.entry.df)]
               /\ ev' = [LoadEv(s, r, "script", "rendered") EXCEPT
                             !.afterw = loc[s].wrote]
    /\ loc' = [loc EXCEPT ![s].wrote = 0]
    /\ UNCHANGED <<data_version, now, writes, tg, sv>>

\* a browser reload: a new session, whose data_version starts at 0 (lines 24-25)
ReloadPage(s) ==
    /\ pc[s] \in {"idle", "stopped"}
    /\ data_version[s] > 0
    /\ data_version' = [data_version EXCEPT ![s] = 0]
    /\ view' = [view EXCEPT ![s] = {}]
    /\ pc' = [pc EXCEPT ![s] = "script"]
    /\ ev' = [NoEv EXCEPT !.op = "reload", !.s = s]
    /\ UNCHANGED <<exists, header, sheet, cache, loc, now, writes, tg, sv>>

\* the same without a ttl: no entry ever expires
Expire_Never(k) ==
    /\ FALSE
    /\ UNCHANGED vars

\* ttl=60: an entry of the cache expires
Expire(k) ==
    /\ cache[k].loaded
    /\ cache' = [cache EXCEPT ![k] = NoEntry]
    /\ ev' = NoEv
    /\ UNCHANGED <<exists, header, sheet, data_version, view, pc, loc, now, writes,
                   tg, sv>>

\* a second passes
Tick ==
    /\ now < MaxTime
    /\ now' = now + 1
    /\ ev' = NoEv
    /\ UNCHANGED <<exists, header, sheet, cache, data_version, view, pc, loc, writes,
                   tg, sv>>


CallEv(s, op, out, cause) ==
    [NoEv EXCEPT !.op = op, !.s = s, !.id = loc[s].id, !.out = out,
                 !.pre = loc[s].pre, !.ver = data_version[s],
                 !.fresh = loc[s].fresh, !.quiet = ~loc[s].intf,
                 !.seq = loc[s].seq, !.pbefore = tg.before,
                 !.pfresh = tg.fresh, !.pquiet = tg.quiet,
                 !.row = loc[s].row, !.new = loc[s].new, !.cause = cause,
                 !.prew = sheet, !.nodel = ~loc[s].idel,
                 !.item = loc[s].newrow.item]

\* the same without the increment
NextVersion_Same(v) == v

\* st.session_state['data_version'] += 1
NextVersion(v) == v + 1

\* ------------------------------------------------------------ toggle_item
\* lines 148-160: the cached load, the read of the current status and
\* find_row_index; net is the fate of the load's remote calls, net2 that of
\* find_row_index's
ToggleLookup(s, id, net, net2) ==
    /\ pc[s] = "idle"
    /\ id \in view[s]
    /\ data_version[s] < MaxVersion
    /\ Room
    /\ LET r == Load(data_version[s], net)
           df == r.entry.df
           row == FindRowIndex(r.sheet, id)
           e0 == [LoadEv(s, r, "toggle", "") EXCEPT
                     !.id = id, !.pre = r.sheet,
                     !.absent = (~r.exc /\ r.entry.sheet /\ Matches(df, id) = {})]
       IN
       /\ Loaded(data_version[s], r)
       /\ IF r.exc
          THEN /\ ev' = [e0 EXCEPT !.out = "neterror"]
               /\ pc' = [pc EXCEPT ![s] = "script"]
               /\ loc' = loc
          ELSE IF ~r.entry.sheet
          THEN /\ ev' = [e0 EXCEPT !.out = "nosheet"]
               /\ pc' = [pc EXCEPT ![s] = "script"]
               /\ loc' = loc
          ELSE IF ~df.cols \/ Matches(df, id) = {}
          THEN \* KeyError: 'timestamp', or IndexError at .iloc[0]
               /\ ev' = [e0 EXCEPT !.out = "pyerror"]
               /\ pc' = [pc EXCEPT ![s] = "script"]
               /\ loc' = loc
          ELSE IF net2 = "down"
          THEN /\ ev' = [e0 EXCEPT !.out = "neterror", !.cause = "find"]
               /\ pc' = [pc EXCEPT ![s] = "script"]
               /\ loc' = loc
          ELSE IF row = 0
          THEN /\ ev' = [e0 EXCEPT !.out = "notfound"]
               /\ pc' = [pc EXCEPT ![s] = "script"]
               /\ loc' = loc
          ELSE /\ ev' = [e0 EXCEPT !.out = "running"]
               /\ pc' = [pc EXCEPT ![s] = "t_write"]
               /\ loc' = [loc EXCEPT ![s] =
                    [NoLoc EXCEPT !.id = id,
                                  !.new = NewStatus(df, id),
                                  !.row = row,
                                  !.pre = r.sheet,
                                  !.old = Truth(r.sheet[row - 1].purchased),
                                  !.fresh = (df.rows = MakeDF(r.sheet).rows),
                                  !.seq = (tg.valid /\ tg.id = id)]]
    /\ UNCHANGED <<data_version, view, now, writes, tg, sv>>

\* lines 165-171: the single cell update and the version increment
ToggleWrite(s, net) ==
    /\ pc[s] = "t_write"
    /\ pc' = [pc EXCEPT ![s] = "script"]
    /\ IF net = "down"
       THEN /\ ev' = CallEv(s, "toggle", "neterror", "write")
            /\ loc' = [loc EXCEPT ![s] = NoLoc]
            /\ UNCHANGED <<sheet, data_version, writes, tg>>
       ELSE /\ sheet' = UpdateCell(sheet, loc[s].row, ToggleCellText(loc[s].new))
            /\ data_version' = [data_version EXCEPT ![s] = NextVersion(@)]
            /\ writes' = writes + 1
            /\ ev' = CallEv(s, "toggle", "wrote", "")
            /\ loc' = Disturb(s, FALSE)
            /\ tg' = [valid |-> TRUE, id |-> loc[s].id, before |-> loc[s].old,
                      fresh |-> loc[s].fresh, quiet |-> ~loc[s].intf]
    /\ UNCHANGED <<exists, header, cache, view, now, sv>>

\* ------------------------------------------------------------ delete_item
\* lines 174-182: the cached load and find_row_index
DeleteLookup(s, id, net, net2) ==
    /\ pc[s] = "idle"
    /\ id \in view[s]
    /\ data_version[s] < MaxVersion
    /\ Room
    /\ LET r == Load(data_version[s], net)
           row == FindRowIndex(r.sheet, id)
           e0 == [LoadEv(s, r, "delete", "") EXCEPT !.id = id, !.pre = r.sheet]
       IN
       /\ Loaded(data_version[s], r)
       /\ IF r.exc
          THEN /\ ev' = [e0 EXCEPT !.out = "neterror"]
               /\ pc' = [pc EXCEPT ![s] = "script"]
               /\ loc' = loc
          ELSE IF ~r.entry.sheet
          THEN /\ ev' = [e0 EXCEPT !.out = "nosheet"]
               /\ pc' = [pc EXCEPT ![s] = "script"]
               /\ loc' = loc
          ELSE IF net2 = "down"
          THEN /\ ev' = [e0 EXCEPT !.out = "neterror", !.cause = "find"]
               /\ pc' = [pc EXCEPT ![s] = "script"]
               /\ loc' = loc
          ELSE IF row = 0
          THEN /\ ev' = [e0 EXCEPT !.out = "notfound"]
               /\ pc' = [pc EXCEPT ![s] = "script"]
               /\ loc' = loc
          ELSE /\ ev' = [e0 EXCEPT !.out = "running"]
               /\ pc' = [pc EXCEPT ![s] = "d_write"]
               /\ loc' = [loc EXCEPT ![s] =
                    [NoLoc EXCEPT !.id = id, !.row = row, !.pre = r.sheet,
                                  !.fresh = (r.entry.df.rows = MakeDF(r.sheet).rows)]]
    /\ UNCHANGED <<data_version, view, now, writes, tg, sv>>

\* lines 184-189
DeleteWrite(s, net) ==
    /\ pc[s] = "d_write"
    /\ pc' = [pc EXCEPT ![s] = "script"]
    /\ IF net = "down"
       THEN /\ ev' = CallEv(s, "delete", "neterror", "write")
            /\ loc' = [loc EXCEPT ![s] = NoLoc]
            /\ UNCHANGED <<sheet, data_version, writes, tg>>
       ELSE /\ sheet' = DeleteRows(sheet, loc[s].row)
            /\ data_version' = [data_version EXCEPT ![s] = NextVersion(@)]
            /\ writes' = writes + 1
            /\ ev' = CallEv(s, "delete", "wrote", "")
            /\ loc' = Disturb(s, TRUE)
            /\ tg' = NoTg
    /\ UNCHANGED <<exists, header, cache, view, now, sv>>

\* --------------------------------------------------------------- add form
\* lines 201-256 of the run a form submission starts: the load, the
\* validation, the new row
SubmitAdd(s, item, category, store, net) ==
    /\ pc[s] = "idle"
    /\ data_version[s] < MaxVersion
    /\ Room
    /\ Len(sheet) + Cardinality({o \in Sessions : pc[o] = "a_write"}) < MaxRows
    /\ LET r == Load(data_version[s], net)
           df == r.entry.df
           e0 == [LoadEv(s, r, "add", "") EXCEPT
                     !.pre = r.sheet, !.item = item,
                     !.fresh = (~r.exc /\ df.rows = MakeDF(r.sheet).rows)]
       IN
       /\ Loaded(data_version[s], r)
       /\ IF r.exc \/ ~r.entry.sheet
          THEN /\ ev' = [e0 EXCEPT !.out = IF r.exc THEN "neterror" ELSE "nosheet"]
               /\ pc' = [pc EXCEPT ![s] = "stopped"]
               /\ view' = [view EXCEPT ![s] = {}]
               /\ loc' = loc
          ELSE IF store = "" \/ category = "" \/ item = ""
          THEN /\ ev' = [e0 EXCEPT !.out = "warning"]
               /\ pc' = [pc EXCEPT ![s] = "idle"]
               /\ view' = [view EXCEPT ![s] = ViewOf(df)]
               /\ loc' = loc
          ELSE IF ~df.cols
          THEN \* KeyError: 'item'
               /\ ev' = [e0 EXCEPT !.out = "pyerror"]
               /\ pc' = [pc EXCEPT ![s] = "stopped"]
               /\ view' = [view EXCEPT ![s] = {}]
               /\ loc' = loc
          ELSE IF ItemOnList(df, item)
          THEN /\ ev' = [e0 EXCEPT !.out = "warning"]
               /\ pc' = [pc EXCEPT ![s] = "idle"]
               /\ view' = [view EXCEPT ![s] = ViewOf(df)]
               /\ loc' = loc
          ELSE /\ ev' = [e0 EXCEPT !.out = "running"]
               /\ pc' = [pc EXCEPT ![s] = "a_write"]
               /\ view' = view
               /\ loc' = [loc EXCEPT ![s] =
                    [NoLoc EXCEPT !.pre = r.sheet,
                                  !.fresh = (df.rows = MakeDF(r.sheet).rows),
                                  !.newrow = [timestamp |-> FormatTime(now),
                                              item |-> item,
                                              purchased |-> SheetBool(FALSE),
                                              category |-> category,
                                              store |-> store]]]
    /\ UNCHANGED <<data_version, now, writes, tg, sv>>

\* lines 259-263: the append, the version increment, st.rerun()
AddWrite(s, net) ==
    /\ pc[s] = "a_write"
    /\ IF net = "down"
       THEN /\ ev' = CallEv(s, "add", "neterror", "write")
            /\ pc' = [pc EXCEPT ![s] = "stopped"]
            /\ view' = [view EXCEPT ![s] = {}]
            /\ loc' = [loc EXCEPT ![s] = NoLoc]
            /\ UNCHANGED <<sheet, data_version, writes, tg>>
       ELSE /\ sheet' = AppendRow(sheet, loc[s].newrow)
            /\ data_version' = [data_version EXCEPT ![s] = NextVersion(@)]
            /\ writes' = writes + 1
            /\ ev' = CallEv(s, "add", "wrote", "")
            /\ pc' = [pc EXCEPT ![s] = "script"]
            /\ view' = view
            /\ loc' = Disturb(s, FALSE)
            /\ tg' = NoTg
    /\ UNCHANGED <<exists, header, cache, now, sv>>

Next ==
    \/ \E s \in Sessions, net \in Nets : Script(s, net)
    \/ \E s \in Sessions : ReloadPage(s)
    \/ \E k \in Versions : Expire(k)
    \/ Tick
    \/ \E s \in Sessions, id \in Ids, net \in Nets, net2 \in {"ok", "down"} :
          ToggleLookup(s, id, net, net2)
    \/ \E s \in Sessions, net \in {"ok", "down"} : ToggleWrite(s, net)
    \/ \E s \in Sessions, id \in Ids, net \in Nets, net2 \in {"ok", "down"} :
          DeleteLookup(s, id, net, net2)
    \/ \E s \in Sessions, net \in {"ok", "down"} : DeleteWrite(s, net)
    \/ \E s \in Sessions, item \in FormItems, category \in FormCategories,
          store \in FormStores, net \in Nets : SubmitAdd(s, item, category, store, net)
    \/ \E s \in Sessions, net \in {"ok", "down"} : AddWrite(s, net)

Spec == Init /\ [][Next]_vars

\* ttl=60: an entry does not stay in the cache for ever
FairSpec == Spec /\ \A k \in Versions : WF_vars(Expire(k))

\* ------------------------------------------------------- save_data_to_sheet
\* the function no handler calls, applied to the tables load_and_get_data can
\* return, on the sheets it can find

\* the cells append_rows(df.values.tolist(), value_input_option='USER_ENTERED')
\* leaves for one row of the frame: a Python bool becomes a boolean cell
SaveCells(rec) ==
    [timestamp |-> rec.timestamp, item |-> rec.item,
     purchased |-> SheetBool(rec.purchased),
     category |-> rec.category, store |-> rec.store]

SaveRowValues ==
    {LegacyRows[1], LegacyRows[2],
     [timestamp |-> FormatTime(0), item |-> "milk",
      purchased |-> ToggleCellText(TRUE), category |-> "Frozen",
      store |-> "Costco"]}

SaveSheets == UNION {[1..n -> SaveRowValues] : n \in 0..MaxRows}

\* the frames of the program: what a load of a sheet gives, and the frame of
\* line 122
Collections == {MakeDF(rows) : rows \in SaveSheets} \cup {EmptyDF}

SaveInit ==
    /\ exists = TRUE
    /\ header = TRUE
    /\ sheet \in SaveSheets
    /\ cache = [k \in Versions |-> NoEntry]
    /\ data_version = [s \in Sessions |-> 0]
    /\ view = [s \in Sessions |-> {}]
    /\ pc = [s \in Sessions |-> "script"]
    /\ loc = [s \in Sessions |-> NoLoc]
    /\ now = 0
    /\ writes = 0
    /\ tg = NoTg
    /\ ev = NoEv
    /\ sv \in {[NoSv EXCEPT !.pc = "clear", !.df = d] : d \in Collections}

SaveKeep == UNCHANGED <<exists, cache, data_version, view, pc, loc, now, writes, tg, ev>>

\* line 76: sheet.clear(); an exception ends the call in st.error (lines 80-81)
SaveClear(net) ==
    /\ sv.pc = "clear"
    /\ IF net = "down"
       THEN /\ sv' = [sv EXCEPT !.pc = "done", !.out = "error"]
            /\ UNCHANGED <<header, sheet>>
       ELSE /\ sv' = [sv EXCEPT !.pc = "header"]
            /\ header' = FALSE
            /\ sheet' = <<>>
    /\ SaveKeep

\* line 77: sheet.append_row(df.columns.tolist()); a frame without columns
\* gives a row without cells
SaveHeader(net) ==
    /\ sv.pc = "header"
    /\ IF net = "down"
       THEN /\ sv' = [sv EXCEPT !.pc = "done", !.out = "error"]
            /\ UNCHANGED header
       ELSE /\ sv' = [sv EXCEPT !.pc = "rows"]
            /\ header' = sv.df.cols
    /\ UNCHANGED sheet
    /\ SaveKeep

\* lines 78-79: sheet.append_rows(df.values.tolist(), ...)
SaveRows(net) ==
    /\ sv.pc = "rows"
    /\ IF net = "down"
       THEN /\ sv' = [sv EXCEPT !.pc = "done", !.out = "error"]
            /\ UNCHANGED sheet
       ELSE /\ sv' = [sv EXCEPT !.pc = "done", !.out = "saved"]
            /\ sheet' = sheet \o [i \in 1..Len(sv.df.rows) |-> SaveCells(sv.df.rows[i])]
    /\ UNCHANGED header
    /\ SaveKeep

\* a load after the call
LoadAfterSave(s, net) ==
    /\ sv.pc = "done"
    /\ LET r == Load(data_version[s], net) IN
       /\ Loaded(data_version[s], r)
       /\ sv' = [sv EXCEPT !.pc = IF r.exc THEN "raised" ELSE "loaded",
                           !.got = r.entry.df]
    /\ UNCHANGED <<data_version, view, pc, loc, now, writes, tg, ev>>

SaveNext ==
    \/ \E net \in {"ok", "down"} : SaveClear(net)
    \/ \E net \in {"ok", "down"} : SaveHeader(net)
    \/ \E net \in {"ok", "down"} : SaveRows(net)
    \/ \E s \in Sessions, net \in {"ok", "down"} : LoadAfterSave(s, net)

SaveSpec == SaveInit /\ [][SaveNext]_vars


\* ================================================================ claims
Wrote(op) == ev.op = op /\ ev.out = "wrote"

\* the purchased value the rows hold for the first record with the identifier
Value(rows, id) == Truth(rows[FirstIdx(rows, id)].purchased)

\* C1, as claimed: when toggle_item(id) is called for an identifier present in
\* the remote sheet, in any state and with any cache contents, the purchased
\* value the sheet holds for the record after the call is the negation of the
\* value it held immediately before the call.  (Stated for the calls during
\* which no other session writes, so that before and after are the call's own.)
C1_Original ==
    (Wrote("toggle") /\ ev.quiet /\ Has(ev.pre, ev.id) /\ Has(sheet, ev.id))
        => Value(sheet, ev.id) = ~Value(ev.pre, ev.id)

\* C1, amended: when the table load_and_get_data hands to toggle_item holds
\* the same records as the remote sheet and no other session writes to the
\* sheet during the call, a call that reaches its write leaves the first
\* record with the identifier where it was, with the negation of the
\* purchased value it had before the call.
C1_ToggleFlipsWhenCurrent ==
    (Wrote("toggle") /\ ev.fresh /\ ev.quiet)
        => /\ Has(sheet, ev.id)
           /\ FirstIdx(sheet, ev.id) = FirstIdx(ev.pre, ev.id)
           /\ Value(sheet, ev.id) = ~Value(ev.pre, ev.id)

C1_Witness == Wrote("toggle") /\ ev.fresh /\ ev.quiet /\ Len(ev.pre) = 2

\* C2, as claimed: two consecutive toggle_item calls with a record's
\* identifier, with no other mutation of the remote sheet between them, leave
\* its purchased value equal to the value before the first call.
C2_Original ==
    (Wrote("toggle") /\ ev.seq /\ ev.quiet /\ ev.pquiet /\ Has(sheet, ev.id))
        => Value(sheet, ev.id) = ev.pbefore

\* C2, amended: the same, for two calls each of which gets from
\* load_and_get_data a table that holds the same records as the remote sheet.
C2_InvolutionWhenCurrent ==
    (Wrote("toggle") /\ ev.seq /\ ev.quiet /\ ev.pquiet /\ ev.fresh /\ ev.pfresh)
        => /\ Has(sheet, ev.id)
           /\ Value(sheet, ev.id) = ev.pbefore

C2_Witness ==
    Wrote("toggle") /\ ev.seq /\ ev.quiet /\ ev.pquiet /\ ev.fresh /\ ev.pfresh

\* C3: when identifiers are unique and no other session acts during the call,
\* delete_item(id) for an id present in the remote sheet leaves the sheet with
\* the records it had, in the same order, minus the record whose identifier
\* is id.
C3_DeleteRemovesExactlyOne ==
    (Wrote("delete") /\ ev.quiet /\ UniqueIds(ev.pre) /\ Has(ev.pre, ev.id))
        => sheet = RemoveAt(ev.pre, FirstIdx(ev.pre, ev.id))

C3_Witness ==
    /\ Wrote("delete") /\ ev.quiet /\ UniqueIds(ev.pre)
    /\ Len(ev.pre) = 2 /\ ev.pre[1].timestamp = ev.id

\* C4: delete_item(id) with an identifier that is not in the remote sheet,
\* when the remote calls it makes are answered, ends without a write and
\* without an exception: the sheet and the session's data_version are what
\* they were.
C4_DeleteAbsentIsNoOp ==
    (ev.op = "delete" /\ ~Has(ev.pre, ev.id) /\ ev.out # "neterror")
        => /\ ev.out \in {"notfound", "nosheet"}
           /\ sheet = ev.pre
           /\ data_version[ev.s] = ev.ver

C4_Witness == ev.op = "delete" /\ ev.out = "notfound" /\ ev.pre # <<>>

\* C5, as claimed: toggle_item(id) with an identifier absent from the table
\* load_and_get_data returns to it is a no-op and raises no error.
C5_Claim ==
    (ev.op = "toggle" /\ ev.absent) => (ev.out # "pyerror" /\ sheet = ev.pre)

\* C6, as claimed: on any fetch failure, the store unreachable or the store
\* not yet existing, load_and_get_data returns an empty collection with the
\* five columns and raises nothing.
C6_Claim == ev.fail # "" => ev.loadres = "empty"

\* C7, as claimed: no two records of the remote sheet ever have the same
\* identifier.
C7_Claim == UniqueIds(sheet)

\* C8, as claimed: the write of a toggle_item or delete_item call changes no
\* record whose identifier differs from the one it was called with, also when
\* one of the two identifiers is a part of the other.
C8_Original ==
    (Wrote("toggle") \/ Wrote("delete"))
        => Others(sheet, ev.id) = Others(ev.prew, ev.id)

\* C8, amended: the same, for the calls during which no other session writes
\* to the sheet.
C8_ExactMatchOnly ==
    ((Wrote("toggle") \/ Wrote("delete")) /\ ev.quiet)
        => Others(sheet, ev.id) = Others(ev.pre, ev.id)

C8_Witness ==
    /\ (Wrote("toggle") \/ Wrote("delete")) /\ ev.quiet
    /\ \E i \in 1..Len(ev.pre) :
          /\ ev.pre[i].timestamp # ev.id
          /\ IsSubstring(ev.id, ev.pre[i].timestamp)
          /\ i < FirstIdx(ev.pre, ev.id)

\* the rows differ at most in the purchased field of rows with the identifier,
\* and in at most one row
OnlyPurchasedOf(before, after, id) ==
    /\ Len(after) = Len(before)
    /\ \A i \in 1..Len(before) :
          \/ after[i] = before[i]
          \/ /\ before[i].timestamp = id
             /\ after[i] = [before[i] EXCEPT !.purchased = after[i].purchased]
    /\ Cardinality({i \in 1..Len(before) : after[i] # before[i]}) <= 1

\* C9, as claimed: the write of toggle_item(id) changes nothing but the
\* purchased field of the record with identifier id; the other records, the
\* other fields, the order and the number of rows stay, and at most one
\* record is modified.
C9_Original == Wrote("toggle") => OnlyPurchasedOf(ev.prew, sheet, ev.id)

\* C9, amended: the same, for the calls during which no other session writes
\* to the sheet.
C9_ToggleFrame ==
    (Wrote("toggle") /\ ev.quiet) => OnlyPurchasedOf(ev.pre, sheet, ev.id)

C9_Witness ==
    Wrote("toggle") /\ ev.quiet /\ Len(ev.pre) = 2 /\ sheet # ev.pre

\* C10: the text toggle_item writes for a status reads "true" exactly when the
\* status is true, the add form's text does not read "true", and a load gives
\* every row the purchased value TRUE exactly when its cell reads "true" in
\* any case of letters, FALSE for every other text.
C10_PurchasedTextRoundTrip ==
    /\ (Wrote("toggle") /\ ev.row - 1 <= Len(sheet))
          => Truth(sheet[ev.row - 1].purchased) = ev.new
    /\ Wrote("add") => ~Truth(sheet[Len(sheet)].purchased)
    /\ (ev.fetched /\ ev.loadres = "table")
          => /\ Len(cache[ev.ver].df.rows) = Len(sheet)
             /\ \A i \in 1..Len(sheet) :
                   cache[ev.ver].df.rows[i].purchased = Truth(sheet[i].purchased)

C10_Witness ==
    /\ ev.fetched /\ ev.loadres = "table"
    /\ \E i, j \in 1..Len(sheet) :
          /\ sheet[i].purchased = <<"T","R","U","E">>
          /\ sheet[j].purchased \notin {<<"T","R","U","E">>, <<"F","A","L","S","E">>}
          /\ cache[ev.ver].df.rows[i].purchased

\* the (item, purchased, category, store) tuples of a frame
Tuples(df) ==
    {<<df.rows[i].item, df.rows[i].purchased, df.rows[i].category, df.rows[i].store>> :
        i \in 1..Len(df.rows)}

\* C11, as claimed: a load after save_data_to_sheet(sheet, C) gives the same
\* set of (item, purchased, category, store) tuples as C, and after the save
\* of an empty collection the sheet holds the header row and nothing else.
\* (Stated for the calls whose remote calls are answered.)
C11_Claim ==
    /\ (sv.pc = "loaded" /\ sv.out = "saved") => Tuples(sv.got) = Tuples(sv.df)
    /\ (sv.pc \in {"done", "loaded"} /\ sv.out = "saved" /\ sv.df.rows = <<>>)
          => (header /\ sheet = <<>>)

RECURSIVE Recs(_)
\* the records of the rows, in order
Recs(rows) ==
    IF rows = <<>> THEN <<>>
    ELSE IF Head(rows).timestamp = <<>> THEN Recs(Tail(rows))
    ELSE <<Head(rows)>> \o Recs(Tail(rows))

\* the same records in the same places, but for the purchased cell of at most
\* one of them
SaveForOneCell(before, after) ==
    /\ Len(after) = Len(before)
    /\ \A i \in 1..Len(before) :
          after[i] = [before[i] EXCEPT !.purchased = after[i].purchased]
    /\ Cardinality({i \in 1..Len(before) : after[i] # before[i]}) <= 1

\* the same records in the same order, but for at most one that is gone
SaveForOneRow(before, after) ==
    \/ after = before
    \/ \E i \in 1..Len(before) : after = RemoveAt(before, i)

\* C12: each toggle_item, delete_item and add makes one write to the remote
\* sheet, a cell update, a row delete or a row append, and none before it:
\* until its write a call leaves the sheet as it found it, and its write
\* leaves every record the sheet held in its place, but for the purchased
\* cell of at most one (toggle), at most one record removed (delete), or one
\* record appended (add).  The sheet is at no point without a record that it
\* holds before and after the call's write.
C12_MutationsAreIncremental ==
    /\ \A s \in Sessions :
          (pc[s] \in Mid /\ ~loc[s].intf) => sheet = loc[s].pre
    /\ Wrote("toggle") => SaveForOneCell(Recs(ev.prew), Recs(sheet))
    /\ Wrote("delete") => SaveForOneRow(Recs(ev.prew), Recs(sheet))
    /\ Wrote("add") =>
          /\ Len(Recs(sheet)) = Len(Recs(ev.prew)) + 1
          /\ SubSeq(Recs(sheet), 1, Len(Recs(ev.prew))) = Recs(ev.prew)

C12_Witness ==
    /\ Wrote("delete") /\ Len(Recs(ev.prew)) = 2
    /\ Len(Recs(sheet)) = 1 /\ ~ev.quiet

\* the table the session holds in memory has the mutation of the call
InMemory ==
    LET e == cache[ev.ver] IN
    /\ e.loaded
    /\ IF ev.op = "toggle"
       THEN \E i \in 1..Len(e.df.rows) :
               /\ e.df.rows[i].timestamp = ev.id
               /\ e.df.rows[i].purchased = ev.new
       ELSE \A i \in 1..Len(e.df.rows) : e.df.rows[i].timestamp # ev.id

\* C13, as claimed: when the remote sheet is unreachable at the write of
\* toggle_item or delete_item, the sheet is unchanged and the mutation is kept
\* in memory, to be retried.
C13_Claim ==
    (ev.op \in {"toggle", "delete"} /\ ev.cause = "write")
        => (sheet = ev.prew /\ InMemory)

\* C14, as claimed: the first load_and_get_data call of a session after one
\* of its handlers wrote to the sheet and incremented its data_version
\* returns a table fetched after that write, whatever the other sessions
\* have left in the cache.
C14_Claim ==
    (ev.op = "script" /\ ev.afterw > 0 /\ ev.loadres # "raised")
        => cache[ev.ver].at >= ev.afterw

\* the row the call wrote to held, at the write, a record with the identifier
\* the call was given
ActedOnId ==
    /\ ev.row - 1 <= Len(ev.prew)
    /\ ev.prew[ev.row - 1].timestamp = ev.id

\* C15, as claimed: when another session writes to the sheet between the
\* find_row_index lookup of a toggle_item or delete_item call and its write,
\* the row the call writes to is still that of a record with its identifier.
C15_Original ==
    ((Wrote("toggle") \/ Wrote("delete")) /\ ~ev.quiet) => ActedOnId

\* C15, amended: the same when no other session deletes a row between the
\* lookup and the write, whatever appends and cell updates other sessions make
\* there; the call then leaves every record with another identifier as it was.
C15_PositionHoldsWithoutDelete ==
    ((Wrote("toggle") \/ Wrote("delete")) /\ ev.nodel)
        => /\ ActedOnId
           /\ Others(sheet, ev.id) = Others(ev.prew, ev.id)

C15_Witness ==
    /\ (Wrote("toggle") \/ Wrote("delete")) /\ ev.nodel /\ ~ev.quiet
    /\ ev.prew # ev.pre

\* C16, as claimed: every table load_and_get_data returns has the five
\* columns, also for a sheet that holds the header row alone, and the add
\* form's duplicate check never fails for the lack of the item column.
C16_Claim ==
    /\ \A k \in Versions : cache[k].loaded => cache[k].df.cols
    /\ ev.op = "add" => ev.out # "pyerror"

DistinctItems(rows) ==
    \A i, j \in Records(rows) : i # j => rows[i].item # rows[j].item

\* C17, as claimed: no two records of the remote sheet ever have the same
\* item name.
C17_Original == DistinctItems(sheet)

\* C17, amended: an add that gets from load_and_get_data a table that holds
\* the same records as the remote sheet goes on to its append only with an
\* item name the sheet does not hold, and when no other session writes
\* during it, a sheet with distinct item names has distinct item names after
\* its append.
C17_NoDuplicateWhenCurrent ==
    /\ (ev.op = "add" /\ ev.out = "running" /\ ev.fresh)
          => \A i \in 1..Len(ev.pre) : ev.pre[i].item # ev.item
    /\ (Wrote("add") /\ ev.fresh /\ ev.quiet /\ DistinctItems(ev.pre))
          => DistinctItems(sheet)

C17_Witness ==
    /\ Wrote("add") /\ ev.fresh /\ ev.quiet
    /\ Len(ev.pre) = 1 /\ Len(sheet) = 2

\* C18: in every step, the data_version of a session goes up by 1 when the
\* step is a write of one of its toggle_item, delete_item or add calls to the
\* remote sheet, and stays what it is otherwise: it never goes down, and a
\* call that ends without a write (the sheet failed to load, the identifier
\* was not found, the add was rejected, a remote call failed) leaves it.  A
\* page reload starts a new session, whose data_version is 0.
C18_VersionCountsWrites ==
    [][\A s \in Sessions :
          IF ev'.op = "reload" /\ ev'.s = s
          THEN data_version'[s] = 0
          ELSE data_version'[s] =
                  data_version[s] + (IF writes' > writes /\ ev'.s = s THEN 1 ELSE 0)]_vars

C18_Witness ==
    /\ Wrote("delete") /\ data_version[ev.s] = ev.ver + 1
    /\ \E o \in Sessions : o # ev.s /\ data_version[o] = 0 /\ pc[o] \in Mid

\* every table the cache holds has the records of the remote sheet
CacheCurrent ==
    \A k \in Versions :
        cache[k].loaded => cache[k].df.rows = MakeDF(sheet).rows

\* C19: when from some point on no session writes to the remote sheet, and
\* no entry stays in the cache for ever, then from some point on every table
\* the cache holds, and so every table a session obtains from
\* load_and_get_data, by a hit or by a fetch, has the records of the sheet.
C19_StalenessEnds ==
    (<>[][writes' = writes]_vars) => <>[]CacheCurrent

C19_Witness ==
    /\ writes = MaxWrites
    /\ \E k \in Versions : cache[k].loaded /\ cache[k].at < writes
    /\ ~CacheCurrent

====
